---- MODULE Spec2Model ----
(***************************************************************************)
(* owwatcher: one daemon thread per configured directory registers a       *)
(* recursive inotify watch, filters the delivered events, stats the        *)
(* affected entry and logs an alert to the local and the syslog logger.    *)
(* The main thread registers the signal handlers, merges the options,      *)
(* starts the threads and polls the module-level flag _PROCESS_EVENTS.     *)
(***************************************************************************)
EXTENDS Integers, Sequences, FiniteSets, TLC

(* ------------------------------ bounds -------------------------------- *)

\* number of directories in options.dirs
NumDirs == 2

\* what happens to the watched directories, in all: changes of their entries,
\* removals of the directories and terminal events of their watches
MaxFsOps == 2

\* length of the event_types lists given to has_interesting_events directly
MaxTags == 2

\* largest st_mode given to is_world_writable directly (0o777)
MaxMode == 511

\* largest custom permission mask given to the permission check (0o077)
MaxMask == 63

\* length of the paths given to the path translation
MaxPathLen == 3

(* ----------------------------- constants ------------------------------ *)

\* the literal 0o002 of is_world_writable
S_IWOTH == 2

INTERESTING_EVENTS == {"IN_ATTRIB", "IN_CREATE", "IN_MOVED_TO"}

\* ic.IN_ATTRIB | ic.IN_CREATE | ic.IN_MOVED_TO | ic.IN_ISDIR, as the set of its flags
EVENT_MASK == {"IN_ATTRIB", "IN_CREATE", "IN_MOVED_TO", "IN_ISDIR"}

\* the event type names the tests and the watch can produce
EventTypeNames == {"IN_ATTRIB", "IN_CREATE", "IN_MOVED_TO", "IN_ISDIR", "IN_DELETE"}

\* the terminal event types of the inotify adapter
TerminalEvents == {"IN_UNMOUNT", "IN_Q_OVERFLOW"}

Signals == {"SIGINT", "SIGTERM"}

INVALID_DIR_ERROR == "The directory '%s' does not exist"
INVALID_PORT_ERROR == "Port must be an integer between 1 and 65535 inclusive."
INVALID_PROTOCOL_ERROR == "Unknown protocol '%s'. Valid protocols are 'udp' or 'tcp'."

\* the ports option merging can arrive at: integers around the two ends of
\* the valid range, and a value that is not an integer
Ports == [isint : {TRUE}, val : {-1, 0, 1, 65535, 65536}] \cup {[isint |-> FALSE, val |-> 0]}

\* the protocols option merging can arrive at
Protocols == {"udp", "tcp", "bogus"}

\* the positions of the list options.dirs; the thread started for the d-th
\* entry of the list is named by d
Dirs == 1 .. NumDirs

\* the directories the list can name: the entries of the list are strings and
\* nothing keeps two of them from naming the same directory
Paths == 1 .. NumDirs

\* the lists options.dirs can be, the directories numbered in the order in
\* which the list first names them
DirLists ==
    {l \in [Dirs -> Paths] :
        /\ l[1] = 1
        /\ \A i \in 2 .. NumDirs : \E j \in 1 .. i - 1 : l[i] <= l[j] + 1}

\* modes of the entries created and chmod'ed under a watched directory
\* (0o644, 0o646)
FileModes == {420, 422}

Kinds == {"file", "directory"}

\* the one entry name used under each watched directory
FileName == "f"

Absent == [kind |-> "absent", mode |-> 0]

VARIABLES
    dirs,           \* options.dirs: dirs[d] is the directory of the d-th entry
    given,          \* the port and protocol the command line and config file give
    stderr,         \* what main printed to sys.stderr
    PROCESS_EVENTS, \* the module-level flag _PROCESS_EVENTS
    mainpc,         \* position of the main thread
    nextDir,        \* index of the next directory main starts a thread for
    isdir,          \* isdir[p]: the directory p exists (os.path.isdir)
    entry,          \* entry[p]: the entry FileName under p (kind, mode)
    fsHist,         \* fsHist[p]: what happened to p: changes and terminal events
    pc,             \* pc[d]: position of the thread started for dirs[d]
    watch,          \* watch[d]: the InotifyTree the thread holds, or NoWatch
    queue,          \* queue[d]: events of the watch not yet yielded
    cur,            \* cur[d]: the event process_event is working on
    msg,            \* msg[d]: the local msg of send_ow_alert
    cause,          \* cause[d]: the terminal event caught, while recovering
    ops,            \* ops[d]: the watch operations of the thread, in order
    processed,      \* processed[d]: the events given to process_event
    localLog,       \* localLog[d]: warnings the thread wrote to _LOGGER
    syslogLog,      \* syslogLog[d]: warnings it wrote to _SYSLOG_LOGGER
    fcall           \* the last direct call of a pure function

vars == <<dirs, given, stderr, PROCESS_EVENTS, mainpc, nextDir, isdir, entry, fsHist, pc,
          watch, queue, cur, msg, cause, ops, processed, localLog, syslogLog,
          fcall>>

mainVars == <<dirs, given, stderr, mainpc, nextDir>>
fsVars == <<isdir, entry, fsHist>>
workerVars == <<pc, watch, queue, cur, msg, cause, ops, processed, localLog, syslogLog>>

NoWatch == [root |-> 0, mask |-> {}]
NoEvent == [id |-> 0, event_types |-> <<>>, path |-> 0, filename |-> ""]
NoMsg == [level |-> "none", text |-> "", word |-> "", path |-> 0, filename |-> "",
          rec |-> 0]
NoCall == [fn |-> "none"]
NoException == [exc |-> "none", text |-> "", dir |-> 0, protocol |-> ""]

\* the inputs once option merging has used them
Consumed == [port |-> [isint |-> TRUE, val |-> 0], protocol |-> ""]

Range(s) == {s[i] : i \in 1 .. Len(s)}

RECURSIVE BitAnd(_, _)
\* Python's a & b on non-negative integers
BitAnd(a, b) ==
    IF a = 0 \/ b = 0 THEN 0
    ELSE (a % 2) * (b % 2) + 2 * BitAnd(a \div 2, b \div 2)

(* --------------------------- pure functions --------------------------- *)

\* has_interesting_events with IN_ISDIR, a flag of EVENT_MASK, taken for a trigger
has_interesting_events_mask(event_types, interesting_events) ==
    Cardinality((interesting_events \cup {"IN_ISDIR"}) \cap Range(event_types)) > 0

\* has_interesting_events true of every event that has a type at all
has_interesting_events_any(event_types, interesting_events) ==
    Len(event_types) > 0

\* len(interesting_events.intersection(set(event_types))) > 0
has_interesting_events(event_types, interesting_events) ==
    Cardinality(interesting_events \cap Range(event_types)) > 0

\* os.stat(full_path): the entry's mode, or FileNotFoundError
os_stat(e) ==
    IF e.kind = "absent" THEN [err |-> "FileNotFoundError", st_mode |-> 0]
    ELSE [err |-> "none", st_mode |-> e.mode]

\* is_world_writable answering True for an entry that is gone
is_world_writable_missing(status) ==
    IF status.err = "FileNotFoundError" THEN 1
    ELSE BitAnd(status.st_mode, S_IWOTH)

\* is_world_writable testing the others-read and others-write bits (0o006)
is_world_writable_rw(status) ==
    IF status.err = "FileNotFoundError" THEN 0
    ELSE BitAnd(status.st_mode, 6)

\* is_world_writable testing the others-read bit (0o004)
is_world_writable_read(status) ==
    IF status.err = "FileNotFoundError" THEN 0
    ELSE BitAnd(status.st_mode, 4)

\* is_world_writable, given what os.stat produced: status.st_mode & 0o002, or
\* False (the integer 0) when the entry was not found.  Any other error of
\* os.stat is not caught here and is handled where the function is called.
is_world_writable(status) ==
    IF status.err = "FileNotFoundError" THEN 0
    ELSE BitAnd(status.st_mode, S_IWOTH)

\* is_world_writable catching every exception (`except Exception`)
is_world_writable_raises_never(status) == FALSE

\* is_world_writable raises: its try has the one clause
\* `except (FileNotFoundError)`, any other error of os.stat leaves it as an
\* exception
is_world_writable_raises(status) ==
    status.err \notin {"none", "FileNotFoundError"}

\* Python truthiness of an integer result
Truthy(v) == v # 0

\* os.path.isdir(full_path) in send_ow_alert
file_or_dir(e) == IF e.kind = "directory" THEN "directory" ELSE "file"

\* "Found world writable %s: %s" % (file_or_dir, full_path)
\* (rec names the event the message was written for; it is not part of the text)
AlertMsg(word, path, filename, rec) ==
    [level |-> "warning", text |-> "Found world writable", word |-> word,
     path |-> path, filename |-> filename, rec |-> rec]

\* "Caught a terminal inotify event (%s). Rebuilding inotify watchers..."
RecoverMsg(tex) ==
    [level |-> "warning", text |-> "Caught a terminal inotify event", word |-> tex,
     path |-> 0, filename |-> "", rec |-> 0]

(* ------------------------------- Init --------------------------------- *)

Init ==
    /\ dirs \in DirLists
    /\ given \in [port : Ports, protocol : Protocols]
    /\ stderr = <<>>
    /\ PROCESS_EVENTS = TRUE
    /\ mainpc = "start"
    /\ nextDir = 1
    /\ isdir \in {f \in [Paths -> BOOLEAN] : \A p \in Paths \ Range(dirs) : f[p]}
    /\ entry = [p \in Paths |-> Absent]
    /\ fsHist = [p \in Paths |-> <<>>]
    /\ pc = [d \in Dirs |-> "idle"]
    /\ watch = [d \in Dirs |-> NoWatch]
    /\ queue = [d \in Dirs |-> <<>>]
    /\ cur = [d \in Dirs |-> NoEvent]
    /\ msg = [d \in Dirs |-> NoMsg]
    /\ cause = [d \in Dirs |-> "none"]
    /\ ops = [d \in Dirs |-> <<>>]
    /\ processed = [d \in Dirs |-> <<>>]
    /\ localLog = [d \in Dirs |-> <<>>]
    /\ syslogLog = [d \in Dirs |-> <<>>]
    /\ fcall = NoCall

\* the process is running: main has neither returned nor exited nor been killed
Alive == mainpc \in {"start", "parse", "spawn", "loop"}

(* ---------------------------- main thread ----------------------------- *)

\* register_signal_handlers(), the first statement of main
RegisterSignalHandlers ==
    /\ mainpc = "start"
    /\ mainpc' = "parse"
    /\ UNCHANGED <<dirs, given, stderr, PROCESS_EVENTS, nextDir, fsVars, workerVars, fcall>>

\* _raise_on_invalid_port accepting the port 0
_raise_on_invalid_port_zero(port) ==
    IF ~port.isint
      THEN [exc |-> "TypeError", text |-> INVALID_PORT_ERROR, dir |-> 0, protocol |-> ""]
    ELSE IF port.val < 0 \/ port.val > 65535
      THEN [exc |-> "ValueError", text |-> INVALID_PORT_ERROR, dir |-> 0, protocol |-> ""]
    ELSE NoException

\* _raise_on_invalid_port(port): the exception it raises, if any
_raise_on_invalid_port(port) ==
    IF ~port.isint
      THEN [exc |-> "TypeError", text |-> INVALID_PORT_ERROR, dir |-> 0, protocol |-> ""]
    ELSE IF port.val < 1 \/ port.val > 65535
      THEN [exc |-> "ValueError", text |-> INVALID_PORT_ERROR, dir |-> 0, protocol |-> ""]
    ELSE NoException

\* os.path.isdir(dir): a name that is no path of the file system is no
\* directory
os_path_isdir(dir) == dir \in Paths /\ isdir[dir]

\* _raise_on_invalid_dir taking every directory for an existing one
_raise_on_invalid_dir_unchecked(dir) == NoException

\* _raise_on_invalid_dir(dir): if not os.path.isdir(dir): raise ValueError
_raise_on_invalid_dir(dir) ==
    IF ~os_path_isdir(dir)
      THEN [exc |-> "ValueError", text |-> INVALID_DIR_ERROR, dir |-> dir, protocol |-> ""]
    ELSE NoException

\* _raise_on_invalid_protocol(protocol)
_raise_on_invalid_protocol(protocol) ==
    IF protocol \notin {"tcp", "udp"}
      THEN [exc |-> "ValueError", text |-> INVALID_PROTOCOL_ERROR, dir |-> 0,
            protocol |-> protocol]
    ELSE NoException

\* _raise_on_invalid_options(port, dirs, protocol): the port, then the
\* directories in the order of the list, then the protocol; the first exception
\* raised is the one that leaves the function
_raise_on_invalid_options(port, ds, protocol) ==
    LET raising == {d \in DOMAIN ds : _raise_on_invalid_dir(ds[d]) # NoException}
        first == CHOOSE d \in raising : \A e \in raising : d <= e
    IN  IF _raise_on_invalid_port(port) # NoException THEN _raise_on_invalid_port(port)
        ELSE IF raising # {} THEN _raise_on_invalid_dir(ds[first])
        ELSE _raise_on_invalid_protocol(protocol)

\* print("Error: %s" % str(ex), file=sys.stderr)
ErrorLine(ex) == [prefix |-> "Error: ", text |-> ex.text, dir |-> ex.dir,
                  protocol |-> ex.protocol]

\* the try block of main: _parse_args, _read_config, _merge_args_and_config
\* with its _raise_on_invalid_options; on an exception the error is printed
\* and sys.exit(1) ends the process, otherwise configure_logging runs and main
\* goes on to start the threads
MergeOptions ==
    LET ex == _raise_on_invalid_options(given.port, dirs, given.protocol)
    IN  /\ mainpc = "parse"
        /\ IF ex = NoException
             THEN /\ mainpc' = "spawn"
                  /\ UNCHANGED stderr
             ELSE /\ mainpc' = "exit1"
                  /\ stderr' = Append(stderr, ErrorLine(ex))
        /\ given' = Consumed
        /\ UNCHANGED <<dirs, PROCESS_EVENTS, nextDir, fsVars, workerVars, fcall>>

\* one iteration of `for dir in options.dirs`: Thread(...).start()
StartThread ==
    /\ mainpc = "spawn"
    /\ nextDir \in Dirs
    /\ pc' = [pc EXCEPT ![nextDir] = "setup"]
    /\ nextDir' = nextDir + 1
    /\ mainpc' = IF nextDir = NumDirs THEN "loop" ELSE "spawn"
    /\ UNCHANGED <<dirs, given, stderr, PROCESS_EVENTS, fsVars, watch, queue, cur, msg, cause,
                   ops, processed, localLog, syslogLog, fcall>>

\* what the exit of the main thread does to a daemon thread
Killed(p) == IF p \in {"idle", "dead"} THEN p ELSE "killed"

\* the control loop waiting for its threads to end before it leaves
LoopCheck_join ==
    /\ mainpc = "loop"
    /\ IF PROCESS_EVENTS \/ \E d \in Dirs : pc[d] \notin {"dead"}
         THEN /\ mainpc' = "loop"
              /\ UNCHANGED <<pc, watch, queue>>
         ELSE /\ mainpc' = "exited"
              /\ pc' = [d \in Dirs |-> Killed(pc[d])]
              /\ watch' = [d \in Dirs |-> NoWatch]
              /\ queue' = [d \in Dirs |-> <<>>]
    /\ UNCHANGED <<dirs, given, stderr, PROCESS_EVENTS, nextDir, fsVars, cur, msg, cause, ops,
                   processed, localLog, syslogLog, fcall>>

\* the test of `while _PROCESS_EVENTS`: true runs time.sleep(1) and tests
\* again; false leaves the loop, main returns and the daemon threads are
\* killed with the process
LoopCheck ==
    /\ mainpc = "loop"
    /\ IF PROCESS_EVENTS
         THEN /\ mainpc' = "loop"
              /\ UNCHANGED <<pc, watch, queue>>
         ELSE /\ mainpc' = "exited"
              /\ pc' = [d \in Dirs |-> Killed(pc[d])]
              /\ watch' = [d \in Dirs |-> NoWatch]
              /\ queue' = [d \in Dirs |-> <<>>]
    /\ UNCHANGED <<dirs, given, stderr, PROCESS_EVENTS, nextDir, fsVars, cur, msg, cause, ops,
                   processed, localLog, syslogLog, fcall>>

\* receive_signal flipping the flag instead of clearing it
receive_signal_toggle(signum) ==
    /\ PROCESS_EVENTS' = ~PROCESS_EVENTS
    /\ UNCHANGED <<mainVars, fsVars, workerVars, fcall>>

\* receive_signal(signum, stack_frame): _PROCESS_EVENTS = False
receive_signal(signum) ==
    /\ PROCESS_EVENTS' = FALSE
    /\ UNCHANGED <<mainVars, fsVars, workerVars, fcall>>

\* SIGINT or SIGTERM is delivered to the process: the handler runs once
\* register_signal_handlers has installed it; before that the signal's default
\* disposition ends the process
Signal(signum) ==
    /\ Alive
    /\ IF mainpc = "start"
         THEN /\ mainpc' = "killed"
              /\ UNCHANGED <<dirs, given, stderr, PROCESS_EVENTS, nextDir, fsVars, workerVars, fcall>>
         ELSE receive_signal(signum)

(* ----------------------- the watched filesystem ----------------------- *)

\* the event_types list the inotify adapter yields for one change
TypeNames(name, kind) ==
    IF kind = "directory" THEN <<name, "IN_ISDIR">> ELSE <<name>>

\* the event tuple (headers, type_names, path, filename) a watch on p yields
\* for the next change under p; id stands for the header (its cookie/sequence)
Event(p, types) ==
    [id |-> Len(fsHist[p]) + 1, event_types |-> types, path |-> p,
     filename |-> FileName]

\* the threads started for the directory p
Watchers(p) == {d \in Dirs : dirs[d] = p}

\* the kernel queues the event on every watch registered on p
Emit(p, types) ==
    queue' = [d \in Dirs |->
                 IF dirs[d] = p /\ watch[d] # NoWatch
                   THEN Append(queue[d], Event(p, types))
                   ELSE queue[d]]

RECURSIVE Sum(_, _)
\* f[1] + ... + f[n]
Sum(f, n) == IF n = 0 THEN 0 ELSE f[n] + Sum(f, n - 1)

FsOpsDone == Sum([p \in Paths |-> Len(fsHist[p])], NumDirs)

\* changes are followed from the start of a thread that watches p
CanChange(p) ==
    /\ Alive
    /\ \E d \in Watchers(p) : pc[d] # "idle"
    /\ isdir[p]
    /\ FsOpsDone < MaxFsOps

\* what happened to a directory: a change of its entry (by = 0) or a terminal
\* event of the watch of the thread `by`
FsRecord(op, kind, mode, by) == [op |-> op, kind |-> kind, mode |-> mode, by |-> by]

\* another process creates the entry under p, with the given kind and mode
FsCreate(p, kind, mode) ==
    /\ CanChange(p)
    /\ entry[p] = Absent
    /\ entry' = [entry EXCEPT ![p] = [kind |-> kind, mode |-> mode]]
    /\ fsHist' = [fsHist EXCEPT ![p] = Append(@, FsRecord("IN_CREATE", kind, mode, 0))]
    /\ Emit(p, TypeNames("IN_CREATE", kind))
    /\ UNCHANGED <<PROCESS_EVENTS, mainVars, isdir, pc, watch, cur, msg,
                   cause, ops, processed, localLog, syslogLog, fcall>>

\* another process chmods the entry under p (to the mode it has, too)
FsChmod(p, mode) ==
    /\ CanChange(p)
    /\ entry[p] # Absent
    /\ entry' = [entry EXCEPT ![p].mode = mode]
    /\ fsHist' = [fsHist EXCEPT ![p] =
                     Append(@, FsRecord("IN_ATTRIB", entry[p].kind, mode, 0))]
    /\ Emit(p, TypeNames("IN_ATTRIB", entry[p].kind))
    /\ UNCHANGED <<PROCESS_EVENTS, mainVars, isdir, pc, watch, cur, msg,
                   cause, ops, processed, localLog, syslogLog, fcall>>

\* another process removes the entry under p
FsDelete(p) ==
    /\ CanChange(p)
    /\ entry[p] # Absent
    /\ entry' = [entry EXCEPT ![p] = Absent]
    /\ fsHist' = [fsHist EXCEPT ![p] =
                     Append(@, FsRecord("IN_DELETE", entry[p].kind, 0, 0))]
    /\ Emit(p, TypeNames("IN_DELETE", entry[p].kind))
    /\ UNCHANGED <<PROCESS_EVENTS, mainVars, isdir, pc, watch, cur, msg,
                   cause, ops, processed, localLog, syslogLog, fcall>>

\* the directory p itself goes away after the options were validated, while
\* no thread holds a watch on it
RemoveRoot(p) ==
    /\ Alive
    /\ Watchers(p) # {}
    /\ \A d \in Watchers(p) : pc[d] \in {"setup", "except_sleep", "except_warning"}
    /\ isdir[p]
    /\ FsOpsDone < MaxFsOps
    /\ isdir' = [isdir EXCEPT ![p] = FALSE]
    /\ entry' = [entry EXCEPT ![p] = Absent]
    /\ fsHist' = [fsHist EXCEPT ![p] =
                     Append(@, FsRecord("IN_DELETE_SELF", "directory", 0, 0))]
    /\ UNCHANGED <<PROCESS_EVENTS, mainVars, workerVars, fcall>>

(* --------------------------- worker threads --------------------------- *)

\* a watch operation of the thread d; a registration is recorded with the
\* point of the directory's history at which it was made
Op(name, d, tex) ==
    [op |-> name, root |-> dirs[d], mask |-> IF name = "register" THEN EVENT_MASK ELSE {},
     tex |-> tex, at |-> IF name = "register" THEN Len(fsHist[dirs[d]]) ELSE 0]

Count(seq, name) == Cardinality({i \in 1 .. Len(seq) : seq[i].op = name})

\* the events of the changes made under the directory of d since the last
\* terminal event of d's watch (since the start, if there was none)
Missed(d) ==
    LET h == fsHist[dirs[d]]
        all == [k \in 1 .. Len(h) |->
                   [id |-> k, event_types |-> TypeNames(h[k].op, h[k].kind),
                    path |-> dirs[d], filename |-> FileName]]
        Later(ev) == /\ h[ev.id].by = 0
                     /\ h[ev.id].op # "IN_DELETE_SELF"
                     /\ \A k \in ev.id .. Len(h) : h[k].by # d
    IN  SelectSeq(all, Later)

\* a registration that delivers what changed while no watch was registered
SetupWatch_replay(d) ==
    /\ pc[d] = "setup"
    /\ IF isdir[dirs[d]]
         THEN /\ watch' = [watch EXCEPT ![d] = [root |-> dirs[d], mask |-> EVENT_MASK]]
              /\ ops' = [ops EXCEPT ![d] = Append(@, Op("register", d, "none"))]
              /\ pc' = [pc EXCEPT ![d] = "streaming"]
              /\ queue' = [queue EXCEPT ![d] = Missed(d)]
         ELSE /\ watch' = [watch EXCEPT ![d] = NoWatch]
              /\ ops' = [ops EXCEPT ![d] = Append(@, Op("register_failed", d, "none"))]
              /\ pc' = [pc EXCEPT ![d] = "dead"]
              /\ queue' = [queue EXCEPT ![d] = <<>>]
    /\ UNCHANGED <<PROCESS_EVENTS, mainVars, fsVars, cur, msg, cause,
                   processed, localLog, syslogLog, fcall>>

\* the thread catching the failure of InotifyTree and trying again
SetupWatch_retry(d) ==
    /\ pc[d] = "setup"
    /\ IF isdir[dirs[d]]
         THEN /\ watch' = [watch EXCEPT ![d] = [root |-> dirs[d], mask |-> EVENT_MASK]]
              /\ ops' = [ops EXCEPT ![d] = Append(@, Op("register", d, "none"))]
              /\ pc' = [pc EXCEPT ![d] = "streaming"]
         ELSE /\ watch' = [watch EXCEPT ![d] = NoWatch]
              /\ ops' = [ops EXCEPT ![d] = Append(@, Op("register_failed", d, "none"))]
              /\ pc' = [pc EXCEPT ![d] = "setup"]
    /\ queue' = [queue EXCEPT ![d] = <<>>]
    /\ UNCHANGED <<PROCESS_EVENTS, mainVars, fsVars, cur, msg, cause,
                   processed, localLog, syslogLog, fcall>>

\* the failure of InotifyTree caught like a terminal event: the thread goes on
\* to the sleep and the warning
SetupWatch_recover(d) ==
    /\ pc[d] = "setup"
    /\ IF isdir[dirs[d]]
         THEN /\ watch' = [watch EXCEPT ![d] = [root |-> dirs[d], mask |-> EVENT_MASK]]
              /\ ops' = [ops EXCEPT ![d] = Append(@, Op("register", d, "none"))]
              /\ pc' = [pc EXCEPT ![d] = "streaming"]
         ELSE /\ watch' = [watch EXCEPT ![d] = NoWatch]
              /\ ops' = [ops EXCEPT ![d] = Append(@, Op("register_failed", d, "none"))]
              /\ pc' = [pc EXCEPT ![d] = "except_sleep"]
    /\ queue' = [queue EXCEPT ![d] = <<>>]
    /\ UNCHANGED <<PROCESS_EVENTS, mainVars, fsVars, cur, msg, cause,
                   processed, localLog, syslogLog, fcall>>

\* top of `while True`: i = inotify.adapters.InotifyTree(dir, mask=EVENT_MASK);
\* it raises when dir cannot be watched, which nothing in the thread catches
SetupWatch(d) ==
    /\ pc[d] = "setup"
    /\ IF isdir[dirs[d]]
         THEN /\ watch' = [watch EXCEPT ![d] = [root |-> dirs[d], mask |-> EVENT_MASK]]
              /\ ops' = [ops EXCEPT ![d] = Append(@, Op("register", d, "none"))]
              /\ pc' = [pc EXCEPT ![d] = "streaming"]
         ELSE /\ watch' = [watch EXCEPT ![d] = NoWatch]
              /\ ops' = [ops EXCEPT ![d] = Append(@, Op("register_failed", d, "none"))]
              /\ pc' = [pc EXCEPT ![d] = "dead"]
    /\ queue' = [queue EXCEPT ![d] = <<>>]
    /\ UNCHANGED <<PROCESS_EVENTS, mainVars, fsVars, cur, msg, cause,
                   processed, localLog, syslogLog, fcall>>

\* what process_event found for an event its thread d was given, and the
\* number of the watch (first, second, ...) that delivered the event
Outcome(d, ev, result, status) ==
    [id |-> ev.id, event_types |-> ev.event_types, result |-> result,
     stat |-> status, reg |-> Count(ops[d], "register")]

NoStat == [err |-> "not called", st_mode |-> 0]

\* process_event given the newest event of the watch before the older ones
ProcessEvent_lifo(d, fault) ==
    LET ev == queue[d][Len(queue[d])]
        status == IF fault THEN [err |-> "OSError", st_mode |-> 0]
                           ELSE os_stat(entry[ev.path])
        interesting == has_interesting_events(ev.event_types, INTERESTING_EVENTS)
        raised == interesting /\ is_world_writable_raises(status)
    IN  /\ pc[d] = "streaming"
        /\ queue[d] # <<>>
        /\ queue' = [queue EXCEPT ![d] = IF raised THEN <<>>
                                            ELSE SubSeq(@, 1, Len(@) - 1)]
        /\ IF ~interesting
             THEN /\ ~fault
                  /\ processed' = [processed EXCEPT ![d] =
                                      Append(@, Outcome(d, ev, "not interesting", NoStat))]
                  /\ UNCHANGED <<pc, cur, watch>>
             ELSE IF raised
             THEN /\ processed' = [processed EXCEPT ![d] =
                                      Append(@, Outcome(d, ev, "raised", status))]
                  /\ pc' = [pc EXCEPT ![d] = "dead"]
                  /\ watch' = [watch EXCEPT ![d] = NoWatch]
                  /\ UNCHANGED cur
             ELSE IF Truthy(is_world_writable(status))
             THEN /\ processed' = [processed EXCEPT ![d] =
                                      Append(@, Outcome(d, ev, "alert", status))]
                  /\ pc' = [pc EXCEPT ![d] = "send_ow_alert"]
                  /\ cur' = [cur EXCEPT ![d] = ev]
                  /\ UNCHANGED watch
             ELSE /\ processed' = [processed EXCEPT ![d] =
                                      Append(@, Outcome(d, ev, "no alert", status))]
                  /\ UNCHANGED <<pc, cur, watch>>
        /\ UNCHANGED <<PROCESS_EVENTS, mainVars, fsVars, msg, cause, ops,
                       localLog, syslogLog, fcall>>

\* process_event whose uncaught exception also stops the whole program: it
\* clears the flag of the control loop
ProcessEvent_stopall(d, fault) ==
    LET ev == Head(queue[d])
        status == IF fault THEN [err |-> "OSError", st_mode |-> 0]
                           ELSE os_stat(entry[ev.path])
        interesting == has_interesting_events(ev.event_types, INTERESTING_EVENTS)
        raised == interesting /\ is_world_writable_raises(status)
    IN  /\ pc[d] = "streaming"
        /\ queue[d] # <<>>
        /\ queue' = [queue EXCEPT ![d] = IF raised THEN <<>> ELSE Tail(@)]
        /\ IF ~interesting
             THEN /\ ~fault
                  /\ processed' = [processed EXCEPT ![d] =
                                      Append(@, Outcome(d, ev, "not interesting", NoStat))]
                  /\ UNCHANGED <<pc, cur, watch>>
             ELSE IF raised
             THEN /\ processed' = [processed EXCEPT ![d] =
                                      Append(@, Outcome(d, ev, "raised", status))]
                  /\ pc' = [pc EXCEPT ![d] = "dead"]
                  /\ watch' = [watch EXCEPT ![d] = NoWatch]
                  /\ UNCHANGED cur
             ELSE IF Truthy(is_world_writable(status))
             THEN /\ processed' = [processed EXCEPT ![d] =
                                      Append(@, Outcome(d, ev, "alert", status))]
                  /\ pc' = [pc EXCEPT ![d] = "send_ow_alert"]
                  /\ cur' = [cur EXCEPT ![d] = ev]
                  /\ UNCHANGED watch
             ELSE /\ processed' = [processed EXCEPT ![d] =
                                      Append(@, Outcome(d, ev, "no alert", status))]
                  /\ UNCHANGED <<pc, cur, watch>>
        /\ PROCESS_EVENTS' = IF raised THEN FALSE ELSE PROCESS_EVENTS
        /\ UNCHANGED <<mainVars, fsVars, msg, cause, ops,
                       localLog, syslogLog, fcall>>

\* process_event(event) up to the call of send_ow_alert, for the event the
\* generator yields next: has_interesting_events, then is_world_writable with
\* its os.stat.  fault: os.stat raises an error other than FileNotFoundError
\* (permission denied, I/O error); an exception that leaves is_world_writable
\* is caught neither by process_event nor by the thread's loop and ends the
\* thread.
ProcessEvent(d, fault) ==
    LET ev == Head(queue[d])
        status == IF fault THEN [err |-> "OSError", st_mode |-> 0]
                           ELSE os_stat(entry[ev.path])
        interesting == has_interesting_events(ev.event_types, INTERESTING_EVENTS)
        raised == interesting /\ is_world_writable_raises(status)
    IN  /\ pc[d] = "streaming"
        /\ queue[d] # <<>>
        /\ queue' = [queue EXCEPT ![d] = IF raised THEN <<>> ELSE Tail(@)]
        /\ IF ~interesting
             THEN /\ ~fault
                  /\ processed' = [processed EXCEPT ![d] =
                                      Append(@, Outcome(d, ev, "not interesting", NoStat))]
                  /\ UNCHANGED <<pc, cur, watch>>
             ELSE IF raised
             THEN /\ processed' = [processed EXCEPT ![d] =
                                      Append(@, Outcome(d, ev, "raised", status))]
                  /\ pc' = [pc EXCEPT ![d] = "dead"]
                  /\ watch' = [watch EXCEPT ![d] = NoWatch]
                  /\ UNCHANGED cur
             ELSE IF Truthy(is_world_writable(status))
             THEN /\ processed' = [processed EXCEPT ![d] =
                                      Append(@, Outcome(d, ev, "alert", status))]
                  /\ pc' = [pc EXCEPT ![d] = "send_ow_alert"]
                  /\ cur' = [cur EXCEPT ![d] = ev]
                  /\ UNCHANGED watch
             ELSE /\ processed' = [processed EXCEPT ![d] =
                                      Append(@, Outcome(d, ev, "no alert", status))]
                  /\ UNCHANGED <<pc, cur, watch>>
        /\ UNCHANGED <<PROCESS_EVENTS, mainVars, fsVars, msg, cause, ops,
                       localLog, syslogLog, fcall>>

\* send_ow_alert taking the word from the IN_ISDIR of the event instead of
\* asking the file system
SendAlertLocal_eventkind(d) ==
    LET word == IF \E i \in DOMAIN cur[d].event_types : cur[d].event_types[i] = "IN_ISDIR"
                  THEN "directory" ELSE "file"
        m == AlertMsg(word, cur[d].path, cur[d].filename, cur[d].id)
    IN  /\ pc[d] = "send_ow_alert"
        /\ msg' = [msg EXCEPT ![d] = m]
        /\ localLog' = [localLog EXCEPT ![d] = Append(@, m)]
        /\ pc' = [pc EXCEPT ![d] = "syslog_warning"]
        /\ UNCHANGED <<PROCESS_EVENTS, mainVars, fsVars, watch, queue, cur,
                       cause, ops, processed, syslogLog, fcall>>

\* send_ow_alert up to _LOGGER.warning(msg): os.path.isdir, the message, the
\* write to the local logger
SendAlertLocal(d) ==
    LET m == AlertMsg(file_or_dir(entry[cur[d].path]), cur[d].path, cur[d].filename, cur[d].id)
    IN  /\ pc[d] = "send_ow_alert"
        /\ msg' = [msg EXCEPT ![d] = m]
        /\ localLog' = [localLog EXCEPT ![d] = Append(@, m)]
        /\ pc' = [pc EXCEPT ![d] = "syslog_warning"]
        /\ UNCHANGED <<PROCESS_EVENTS, mainVars, fsVars, watch, queue, cur,
                       cause, ops, processed, syslogLog, fcall>>

\* the syslog write made at info level
SendAlertSyslog_info(d) ==
    /\ pc[d] = "syslog_warning"
    /\ syslogLog' = [syslogLog EXCEPT ![d] = Append(@, [msg[d] EXCEPT !.level = "info"])]
    /\ msg' = [msg EXCEPT ![d] = NoMsg]
    /\ cur' = [cur EXCEPT ![d] = NoEvent]
    /\ pc' = [pc EXCEPT ![d] = "streaming"]
    /\ UNCHANGED <<PROCESS_EVENTS, mainVars, fsVars, watch, queue, cause,
                   ops, processed, localLog, fcall>>

\* the syslog write made twice (a retry after a send that did succeed)
SendAlertSyslog_retry(d) ==
    /\ pc[d] = "syslog_warning"
    /\ syslogLog' = [syslogLog EXCEPT ![d] = Append(Append(@, msg[d]), msg[d])]
    /\ msg' = [msg EXCEPT ![d] = NoMsg]
    /\ cur' = [cur EXCEPT ![d] = NoEvent]
    /\ pc' = [pc EXCEPT ![d] = "streaming"]
    /\ UNCHANGED <<PROCESS_EVENTS, mainVars, fsVars, watch, queue, cause,
                   ops, processed, localLog, fcall>>

\* _SYSLOG_LOGGER.warning(msg); send_ow_alert and process_event return and the
\* thread is back in the event generator
SendAlertSyslog(d) ==
    /\ pc[d] = "syslog_warning"
    /\ syslogLog' = [syslogLog EXCEPT ![d] = Append(@, msg[d])]
    /\ msg' = [msg EXCEPT ![d] = NoMsg]
    /\ cur' = [cur EXCEPT ![d] = NoEvent]
    /\ pc' = [pc EXCEPT ![d] = "streaming"]
    /\ UNCHANGED <<PROCESS_EVENTS, mainVars, fsVars, watch, queue, cause,
                   ops, processed, localLog, fcall>>

\* the event generator raises TerminalEventException for the terminal event
\* tex; the thread enters the except clause and the old watch and whatever it
\* had queued are gone
TerminalEvent(d, tex) ==
    /\ Alive
    /\ pc[d] = "streaming"
    /\ FsOpsDone < MaxFsOps
    /\ fsHist' = [fsHist EXCEPT ![dirs[d]] = Append(@, FsRecord(tex, "absent", 0, d))]
    /\ pc' = [pc EXCEPT ![d] = "except_sleep"]
    /\ cause' = [cause EXCEPT ![d] = tex]
    /\ watch' = [watch EXCEPT ![d] = NoWatch]
    /\ queue' = [queue EXCEPT ![d] = <<>>]
    /\ ops' = [ops EXCEPT ![d] = Append(@, Op("terminal", d, tex))]
    /\ UNCHANGED <<PROCESS_EVENTS, mainVars, isdir, entry, cur, msg, processed,
                   localLog, syslogLog, fcall>>

\* the except clause without its time.sleep(1)
ExceptSleep_nodelay(d) ==
    /\ pc[d] = "except_sleep"
    /\ pc' = [pc EXCEPT ![d] = "except_warning"]
    /\ UNCHANGED <<PROCESS_EVENTS, mainVars, fsVars, watch, queue, cur, msg,
                   cause, ops, processed, localLog, syslogLog, fcall>>

\* time.sleep(1) in the except clause
ExceptSleep(d) ==
    /\ pc[d] = "except_sleep"
    /\ pc' = [pc EXCEPT ![d] = "except_warning"]
    /\ ops' = [ops EXCEPT ![d] = Append(@, Op("sleep", d, cause[d]))]
    /\ UNCHANGED <<PROCESS_EVENTS, mainVars, fsVars, watch, queue, cur, msg,
                   cause, processed, localLog, syslogLog, fcall>>

\* the except clause ending the thread after its warning (no `while True`)
ExceptWarning_return(d) ==
    /\ pc[d] = "except_warning"
    /\ pc' = [pc EXCEPT ![d] = "dead"]
    /\ localLog' = [localLog EXCEPT ![d] = Append(@, RecoverMsg(cause[d]))]
    /\ ops' = [ops EXCEPT ![d] = Append(@, Op("warning", d, cause[d]))]
    /\ cause' = [cause EXCEPT ![d] = "none"]
    /\ UNCHANGED <<PROCESS_EVENTS, mainVars, fsVars, watch, queue, cur, msg,
                   processed, syslogLog, fcall>>

\* _LOGGER.warning("Caught a terminal inotify event (%s). ..." % str(tex)),
\* after which the while loop starts over
ExceptWarning(d) ==
    /\ pc[d] = "except_warning"
    /\ pc' = [pc EXCEPT ![d] = "setup"]
    /\ localLog' = [localLog EXCEPT ![d] = Append(@, RecoverMsg(cause[d]))]
    /\ ops' = [ops EXCEPT ![d] = Append(@, Op("warning", d, cause[d]))]
    /\ cause' = [cause EXCEPT ![d] = "none"]
    /\ UNCHANGED <<PROCESS_EVENTS, mainVars, fsVars, watch, queue, cur, msg,
                   processed, syslogLog, fcall>>

\* one step of the thread watching d
Worker(d) ==
    \/ SetupWatch(d)
    \/ \E fault \in BOOLEAN : ProcessEvent(d, fault)
    \/ SendAlertLocal(d)
    \/ SendAlertSyslog(d)
    \/ ExceptSleep(d)
    \/ ExceptWarning(d)

Main ==
    \/ RegisterSignalHandlers
    \/ MergeOptions
    \/ StartThread
    \/ LoopCheck

Environment ==
    \/ \E signum \in Signals : Signal(signum)
    \/ \E p \in Paths, kind \in Kinds, mode \in FileModes : FsCreate(p, kind, mode)
    \/ \E p \in Paths, mode \in FileModes : FsChmod(p, mode)
    \/ \E p \in Paths : FsDelete(p)
    \/ \E p \in Paths : RemoveRoot(p)
    \/ \E d \in Dirs, tex \in TerminalEvents : TerminalEvent(d, tex)

Next ==
    \/ Main
    \/ \E d \in Dirs : Worker(d)
    \/ Environment

Spec == Init /\ [][Next]_vars

\* The interpreter schedules every thread that can run: the main thread and
\* each started thread keep taking their next step.  Nothing is assumed of
\* the signals, the filesystem changes and the terminal events.
FairSpec ==
    /\ Spec
    /\ WF_vars(Main)
    /\ \A d \in Dirs : WF_vars(Worker(d))

(* ------------------ the pure functions, called directly ---------------- *)

\* the event_types lists of at most MaxTags names
TagLists == UNION {[1 .. n -> EventTypeNames] : n \in 0 .. MaxTags}

\* the entries os.stat can be asked about: none, or one of any kind and mode
StatEntries == {Absent} \cup [kind : Kinds, mode : 0 .. MaxMode]

\* has_interesting_events(event_types, INTERESTING_EVENTS), as the tests call it
CallHasInterestingEvents(event_types) ==
    /\ fcall = NoCall
    /\ fcall' = [fn |-> "has_interesting_events", event_types |-> event_types,
                 ret |-> has_interesting_events(event_types, INTERESTING_EVENTS)]
    /\ UNCHANGED <<PROCESS_EVENTS, mainVars, fsVars, workerVars>>

\* is_world_writable(path, filename) with os.stat answering for the entry e
CallIsWorldWritable(e) ==
    /\ fcall = NoCall
    /\ fcall' = [fn |-> "is_world_writable", e |-> e,
                 ret |-> is_world_writable(os_stat(e))]
    /\ UNCHANGED <<PROCESS_EVENTS, mainVars, fsVars, workerVars>>

(* ---- the custom mask and the sandbox paths of the class-based watcher --- *)

\* the configured mask: none, or a custom mask
NoMask == [custom |-> FALSE, val |-> 0]
PermsMasks == {NoMask} \cup [custom : {TRUE}, val : 0 .. MaxMask]

\* the mask of the active policy: the others-write bit unless a custom mask
\* is configured, which then replaces it
ActiveMask(perms_mask) == IF perms_mask.custom THEN perms_mask.val ELSE S_IWOTH

\* the permission check requiring every bit of the mask to be set
matches_all(status, mask) ==
    IF status.err = "FileNotFoundError" THEN FALSE
    ELSE BitAnd(status.st_mode, mask) = mask

\* matches(directoryPath, entryName, mask), given what the stat produced:
\* false for an entry that is gone, else (mode bits AND mask) != 0
matches(status, mask) ==
    IF status.err = "FileNotFoundError" THEN FALSE
    ELSE BitAnd(status.st_mode, mask) # 0

RECURSIVE OctalDigits(_)
\* the digits of n written in base 8
OctalDigits(n) == IF n < 8 THEN <<n>> ELSE Append(OctalDigits(n \div 8), n % 8)

RECURSIVE ZeroPad(_, _)
\* the digits filled up with zeros on the left to the given width
ZeroPad(digits, width) ==
    IF Len(digits) >= width THEN digits ELSE ZeroPad(<<0>> \o digits, width)

\* the mask as the alert message cites it: in octal, 020 for 0o020
Octal(n) == ZeroPad(OctalDigits(n), 3)

\* the condition the alert message names: the words of the world writable
\* policy, or the custom mask in octal
ConditionDescription(perms_mask) ==
    IF perms_mask.custom THEN [word |-> "", octal |-> Octal(perms_mask.val)]
    ELSE [word |-> "world-writable", octal |-> <<>>]

\* the permission check and the message condition under the configured mask
CallMatches(e, perms_mask) ==
    /\ fcall = NoCall
    /\ fcall' = [fn |-> "matches", e |-> e, perms_mask |-> perms_mask,
                 ret |-> matches(os_stat(e), ActiveMask(perms_mask)),
                 condition |-> ConditionDescription(perms_mask)]
    /\ UNCHANGED <<PROCESS_EVENTS, mainVars, fsVars, workerVars>>

\* paths as strings over a small alphabet; "/" is the separator
Chars == {"/", "a", "h"}
PathStrings == UNION {[1 .. n -> Chars] : n \in 0 .. MaxPathLen}

\* sandbox roots: absolute paths that do not end in a separator
Prefixes == {<<"/", "h">>, <<"/", "h", "/", "a">>}

RECURSIVE lstrip(_)
\* the path without its leading separators
lstrip(path) ==
    IF path # <<>> /\ Head(path) = "/" THEN lstrip(Tail(path)) ELSE path

\* prefix is the beginning of path
StartsWith(path, prefix) ==
    /\ Len(prefix) <= Len(path)
    /\ SubSeq(path, 1, Len(prefix)) = prefix

\* toInternal joining the sandbox root and the path as it is
toInternal_nostrip(path, prefix, sandboxed) ==
    IF sandboxed THEN prefix \o <<"/">> \o path ELSE path

\* toInternal(path): under a sandboxed deployment the sandbox root joined with
\* the path stripped of its leading separator; the identity otherwise
toInternal(path, prefix, sandboxed) ==
    IF sandboxed THEN prefix \o <<"/">> \o lstrip(path) ELSE path

\* toExternal(path): under a sandboxed deployment the path without the sandbox
\* root when it begins with it; the path unchanged otherwise
toExternal(path, prefix, sandboxed) ==
    IF sandboxed /\ StartsWith(path, prefix)
      THEN SubSeq(path, Len(prefix) + 1, Len(path))
      ELSE path

\* a configured root translated for the registration of the watch and the
\* observed path translated back for the alert
CallTranslate(path, prefix, sandboxed) ==
    /\ fcall = NoCall
    /\ fcall' = [fn |-> "translate", path |-> path, prefix |-> prefix,
                 sandboxed |-> sandboxed,
                 internal |-> toInternal(path, prefix, sandboxed),
                 external |-> toExternal(path, prefix, sandboxed),
                 roundtrip |-> toExternal(toInternal(path, prefix, sandboxed),
                                          prefix, sandboxed)]
    /\ UNCHANGED <<PROCESS_EVENTS, mainVars, fsVars, workerVars>>

(* ------------------- _merge_args_and_config(args, config) ------------- *)

\* the comma of a dirs string; every other character of it is a path
Comma == 0

RECURSIVE split(_)
\* str.split(','): the pieces between the commas, empty pieces included
split(s) ==
    IF \A i \in DOMAIN s : s[i] # Comma THEN <<s>>
    ELSE LET i == CHOOSE j \in DOMAIN s :
                     s[j] = Comma /\ \A k \in 1 .. j - 1 : s[k] # Comma
         IN  <<SubSeq(s, 1, i - 1)>> \o split(SubSeq(s, i + 1, Len(s)))

\* the directory a piece names: pieces of one character are paths, every
\* other piece names nothing that exists
DirOf(name) == IF Len(name) = 1 THEN name[1] ELSE 0

\* the list of directories of a dirs string
DirList(s) == [i \in DOMAIN split(s) |-> DirOf(split(s)[i])]

\* the defaults at the top of _merge_args_and_config
DefaultDirs == <<1>>
DefaultPort == [isint |-> TRUE, val |-> 514]
DefaultSyslogServer == "127.0.0.1"
DefaultProtocol == "udp"

\* the values of a config file are strings: the text of a port is a decimal
\* literal or it is not
PortTexts == [numeric : {TRUE}, n : {-1, 0, 1, 65535, 65536}]
                 \cup {[numeric |-> FALSE, n |-> 0]}

\* int(text) raising on a text that is no literal
IntError == [exc |-> "ValueError", text |-> "invalid literal for int()", dir |-> 0,
             protocol |-> ""]

\* int(text) for a literal
int(text) == [isint |-> TRUE, val |-> text.n]

\* str.lower()
lower(s) == CASE s = "TCP" -> "tcp"
              [] s = "UDP" -> "udp"
              [] OTHER -> s

\* the parsed arguments: None is given = FALSE; tcp and debug are store_true
\* flags
NoDirs == [given |-> FALSE, val |-> <<>>]
NoPort == [given |-> FALSE, val |-> [isint |-> TRUE, val |-> 0]]
NoServer == [given |-> FALSE, val |-> ""]
ArgsSet == [dirs : {NoDirs} \cup [given : {TRUE}, val : {<<1, Comma, 2>>, <<2>>}],
            port : {NoPort} \cup [given : {TRUE}, val : Ports],
            syslog_server : {NoServer, [given |-> TRUE, val |-> "otherserver.domain"]},
            tcp : BOOLEAN,
            debug : BOOLEAN]

\* config['DEFAULT']: every key is there or not
ConfigSet == [dirs : {[present |-> FALSE, val |-> <<>>],
                      [present |-> TRUE, val |-> <<2, Comma, 1>>]},
              port : {[present |-> FALSE, val |-> [numeric |-> TRUE, n |-> 0]]}
                         \cup [present : {TRUE}, val : PortTexts],
              syslog_server : {[present |-> FALSE, val |-> ""],
                               [present |-> TRUE, val |-> "configserver.domain"]},
              protocol : {[present |-> FALSE, val |-> ""]}
                             \cup [present : {TRUE}, val : {"udp", "TCP", "bogus"}],
              debug : {[present |-> FALSE, val |-> ""]}
                          \cup [present : {TRUE}, val : {"True", "False"}],
              log_file : {[present |-> FALSE, val |-> ""],
                          [present |-> TRUE, val |-> "/var/log/owwatcher.log"]}]

\* the value of a call that raised
NoOptions == [dirs |-> <<>>, port |-> [isint |-> TRUE, val |-> 0], syslog_server |-> "",
              protocol |-> "", debug |-> FALSE]

\* _merge_args_and_config(args, config): the exception that leaves it, or the
\* Options it returns
_merge_args_and_config(args, config) ==
    LET ds == IF args.dirs.given THEN DirList(args.dirs.val)
              ELSE IF config.dirs.present THEN DirList(config.dirs.val)
              ELSE DefaultDirs
        badint == ~args.port.given /\ config.port.present /\ ~config.port.val.numeric
        pt == IF args.port.given THEN args.port.val
              ELSE IF config.port.present THEN int(config.port.val)
              ELSE DefaultPort
        server == IF args.syslog_server.given THEN args.syslog_server.val
                  ELSE IF config.syslog_server.present THEN config.syslog_server.val
                  ELSE DefaultSyslogServer
        proto == IF args.tcp THEN "tcp"
                 ELSE IF config.protocol.present THEN lower(config.protocol.val)
                 ELSE DefaultProtocol
        ex == IF badint THEN IntError ELSE _raise_on_invalid_options(pt, ds, proto)
    IN  IF ex # NoException
          THEN [exc |-> ex, returned |-> FALSE, options |-> NoOptions]
        ELSE [exc |-> NoException, returned |-> TRUE,
              options |-> [dirs |-> ds, port |-> pt, syslog_server |-> server,
                           protocol |-> proto, debug |-> args.debug]]

\* one call of _merge_args_and_config
CallMergeArgsAndConfig(args, config) ==
    /\ fcall = NoCall
    /\ fcall' = [fn |-> "_merge_args_and_config", args |-> args, config |-> config,
                 ret |-> _merge_args_and_config(args, config)]
    /\ UNCHANGED <<PROCESS_EVENTS, mainVars, fsVars, workerVars>>

\* one direct call, made from the initial state
NextFn ==
    /\ fcall = NoCall
    /\ \/ \E event_types \in TagLists : CallHasInterestingEvents(event_types)
       \/ \E e \in StatEntries : CallIsWorldWritable(e)
       \/ \E e \in StatEntries, perms_mask \in PermsMasks : CallMatches(e, perms_mask)
       \/ \E path \in PathStrings, prefix \in Prefixes, sandboxed \in BOOLEAN :
             CallTranslate(path, prefix, sandboxed)
       \/ \E args \in ArgsSet, config \in ConfigSet :
             CallMergeArgsAndConfig(args, config)

\* the direct calls start from one state of the program: they depend on
\* nothing but their arguments
InitFn ==
    /\ Init
    /\ dirs = [d \in Dirs |-> d]
    /\ isdir = [p \in Paths |-> TRUE]
    /\ given = [port |-> [isint |-> TRUE, val |-> 1], protocol |-> "udp"]

SpecFn == InitFn /\ [][NextFn]_vars

(* ============================ properties ============================== *)

OthersWrite(mode) == (mode \div 2) % 2 = 1

IsAlert(m) == m.text = "Found world writable"
IsRecoverMsg(m) == m.text = "Caught a terminal inotify event"
IsTerminal(o) == o.op = "terminal"
IsRegister(o) == o.op \in {"register", "register_failed"}

\* the alerts a thread wrote to a logger
Alerts(log) == SelectSeq(log, IsAlert)

\* how many alerts of the log were written for the event rec
AlertsFor(log, rec) == Cardinality({i \in 1 .. Len(log) : IsAlert(log[i]) /\ log[i].rec = rec})

\* s is a prefix of t
IsPrefix(s, t) == Len(s) <= Len(t) /\ \A i \in 1 .. Len(s) : s[i] = t[i]

\* the causes of the terminal events of d, and those its warnings named
TerminalCauses(d) == [i \in 1 .. Len(SelectSeq(ops[d], IsTerminal)) |->
                         SelectSeq(ops[d], IsTerminal)[i].tex]
WarnedCauses(d) == [i \in 1 .. Len(SelectSeq(localLog[d], IsRecoverMsg)) |->
                       SelectSeq(localLog[d], IsRecoverMsg)[i].word]

\* C1: after TerminalEventException the thread first sleeps, then logs a
\* warning that names the terminal event, then registers a watch again on the
\* same directory with EVENT_MASK (an InotifyTree call that may itself fail),
\* and it registers again only so; a thread in the event generator holds the
\* watch on its own directory with EVENT_MASK.  Resumed detection after the
\* re-registration is shown by the witness.
C1_RecoveryOrder ==
    \A d \in Dirs :
        LET o == ops[d]
            n == Len(o)
        IN  /\ \A i \in 1 .. n :
                  IsTerminal(o[i]) =>
                      /\ i + 1 <= n => o[i + 1] = Op("sleep", d, o[i].tex)
                      /\ i + 2 <= n => o[i + 2] = Op("warning", d, o[i].tex)
                      /\ i + 3 <= n => /\ IsRegister(o[i + 3])
                                       /\ o[i + 3].root = dirs[d]
                                       /\ o[i + 3].op = "register" => o[i + 3].mask = EVENT_MASK
            /\ \A i \in 2 .. n : IsRegister(o[i]) => o[i - 1].op = "warning"
            /\ IsPrefix(WarnedCauses(d), TerminalCauses(d))
            /\ Len(WarnedCauses(d)) = Count(o, "warning")
            /\ pc[d] \in {"except_sleep", "except_warning"} => watch[d] = NoWatch
            /\ pc[d] \in {"streaming", "send_ow_alert", "syslog_warning"} =>
                  /\ o[n].op = "register"
                  /\ watch[d] = [root |-> dirs[d], mask |-> EVENT_MASK]

\* a thread went through a recovery and afterwards sent the alert for a world
\* writable entry created under its directory after the terminal event
C1_Witness ==
    \E d \in Dirs :
        /\ Len(fsHist[dirs[d]]) = 2
        /\ fsHist[dirs[d]][1].op \in TerminalEvents
        /\ fsHist[dirs[d]][2].op = "IN_CREATE"
        /\ Count(ops[d], "register") = 2
        /\ AlertsFor(syslogLog[d], 2) = 1

\* what ended a thread that is dead: InotifyTree raised, or os.stat raised
DiedOfFault(d) ==
    \/ ops[d][Len(ops[d])].op = "register_failed"
    \/ /\ processed[d] # <<>>
       /\ processed[d][Len(processed[d])].result = "raised"

\* C2 as claimed: while the process runs with _PROCESS_EVENTS True no thread
\* has ended.
C2_NoThreadEnded ==
    (Alive /\ PROCESS_EVENTS) => \A d \in Dirs : pc[d] # "dead"

\* C2, amended: a terminal event never ends a thread.  A thread in the except
\* clause, while the process runs, gets back to InotifyTree and is in the event
\* generator again unless that registration raises; and a thread ends only
\* because InotifyTree or os.stat raised.
C2_TerminalNeverEndsThread ==
    /\ \A d \in Dirs :
          (pc[d] = "except_sleep") ~>
              (\/ pc[d] = "streaming"
               \/ ~Alive
               \/ pc[d] = "dead" /\ ops[d][Len(ops[d])].op = "register_failed")
    /\ [](\A d \in Dirs : pc[d] = "dead" => DiedOfFault(d))

\* a thread is in the event generator again after a terminal event
C2_Witness ==
    \E d \in Dirs :
        /\ pc[d] = "streaming"
        /\ Count(ops[d], "terminal") >= 1
        /\ Count(ops[d], "register") = Count(ops[d], "terminal") + 1
        /\ PROCESS_EVENTS

\* the thread watching d registers a watch (or tries to) in this step
Registers(d) ==
    /\ Len(ops'[d]) > Len(ops[d])
    /\ IsRegister(ops'[d][Len(ops'[d])])

\* the thread watching d takes the next event into process_event in this step
BeginsEvent(d) == Len(processed'[d]) > Len(processed[d])

\* C3 as claimed: once _PROCESS_EVENTS is False no thread registers a watch
\* (a re-registration after a terminal event included) or begins processing
\* a further event.
C3_NoWatchOpsAfterStop ==
    [][~PROCESS_EVENTS => \A d \in Dirs : ~Registers(d) /\ ~BeginsEvent(d)]_vars

\* C4: _PROCESS_EVENTS is True initially; a step that changes it is a run of
\* receive_signal (the handler is installed, the flag goes from True to False
\* and nothing else changes: neither main nor a thread took a step); hence
\* once False it stays False, however many signals follow.
C4_FlagMonotone ==
    /\ PROCESS_EVENTS = TRUE
    /\ [][/\ ~PROCESS_EVENTS => ~PROCESS_EVENTS'
          /\ PROCESS_EVENTS' # PROCESS_EVENTS =>
                /\ mainpc # "start"
                /\ UNCHANGED <<mainVars, fsVars, workerVars, fcall>>]_vars

\* the flag is False while the process still runs, main being in its loop
C4_Witness == ~PROCESS_EVENTS /\ mainpc = "loop" /\ \E d \in Dirs : pc[d] = "streaming"

\* C5: a signal delivered at any point after register_signal_handlers (also
\* before the threads are started) leaves _PROCESS_EVENTS False and moves
\* neither main nor a thread; once the flag is False the main thread
\* eventually ends, whatever the threads are doing (through its control loop,
\* or through sys.exit(1) if the options turn out invalid); and main leaves
\* its control loop only with the flag False.
C5_SignalEndsMain ==
    /\ [][(mainpc # "start" /\ \E signum \in Signals : Signal(signum)) =>
              /\ ~PROCESS_EVENTS'
              /\ UNCHANGED <<mainVars, workerVars>>]_vars
    /\ [](mainpc = "exited" => ~PROCESS_EVENTS)
    /\ (~PROCESS_EVENTS) ~> (mainpc \in {"exited", "exit1"})

\* main has left the loop while one thread had died and another was running
C5_Witness ==
    /\ mainpc = "exited"
    /\ \E d \in Dirs : pc[d] = "dead"
    /\ \E d \in Dirs : pc[d] = "killed"

\* C9: has_interesting_events(T, {IN_ATTRIB, IN_CREATE, IN_MOVED_TO}) is true
\* exactly when some name of the list T is IN_ATTRIB, IN_CREATE or IN_MOVED_TO;
\* [IN_ISDIR] and [IN_DELETE, IN_ISDIR] give false, [IN_CREATE, IN_ISDIR] and
\* [IN_MOVED_TO] give true.
C9_InterestingIffTrigger ==
    fcall.fn = "has_interesting_events" =>
        LET T == fcall.event_types
        IN  /\ fcall.ret <=> \E i \in 1 .. Len(T) :
                                T[i] = "IN_ATTRIB" \/ T[i] = "IN_CREATE" \/ T[i] = "IN_MOVED_TO"
            /\ T = <<"IN_ISDIR">> => ~fcall.ret
            /\ T = <<"IN_DELETE", "IN_ISDIR">> => ~fcall.ret
            /\ T = <<"IN_CREATE", "IN_ISDIR">> => fcall.ret
            /\ T = <<"IN_MOVED_TO">> => fcall.ret

\* IN_ISDIR next to a trigger was found interesting
C9_Witness ==
    /\ fcall.fn = "has_interesting_events"
    /\ fcall.event_types = <<"IN_ISDIR", "IN_ATTRIB">>
    /\ fcall.ret

\* C10: for an existing entry of mode m, is_world_writable returns a true
\* value exactly when the others-write bit of m is set, whatever the other
\* bits: true for 0o006, 0o777, 0o002, 0o666 (6, 511, 2, 438) and false for
\* 0o004, 0o770, 0o641, 0o665 (4, 504, 417, 437).
C10_WorldWritableIffOthersWrite ==
    (fcall.fn = "is_world_writable" /\ fcall.e # Absent) =>
        /\ Truthy(fcall.ret) <=> OthersWrite(fcall.e.mode)
        /\ fcall.e.mode \in {6, 511, 2, 438} => Truthy(fcall.ret)
        /\ fcall.e.mode \in {4, 504, 417, 437} => ~Truthy(fcall.ret)

\* the mode 0o666 was found world writable
C10_Witness ==
    /\ fcall.fn = "is_world_writable"
    /\ fcall.e # Absent
    /\ fcall.e.mode = 438
    /\ Truthy(fcall.ret)

\* scenario A on the directory d: a file was created with mode 0o644 and then
\* chmod'ed to 0o646 while d was watched, and the thread has handled both events
ScenarioA(d) ==
    /\ fsHist[dirs[d]] = <<FsRecord("IN_CREATE", "file", 420, 0),
                           FsRecord("IN_ATTRIB", "file", 422, 0)>>
    /\ Len(processed[d]) = 2
    /\ processed[d][1].id = 1
    /\ processed[d][2].id = 2
    /\ pc[d] = "streaming"

\* C6 as claimed: in scenario A exactly one alert is written, worded for a
\* file, for the chmod event and not for the create event.
C6_ExactlyOneAlert ==
    \A d \in Dirs :
        ScenarioA(d) =>
            /\ syslogLog[d] = <<AlertMsg("file", dirs[d], FileName, 2)>>
            /\ Alerts(localLog[d]) = syslogLog[d]

\* C6, amended: in scenario A the chmod event always gets exactly one alert,
\* worded for a file; the create event gets none when its os.stat ran before
\* the chmod, and one alert of its own, before the other, when its os.stat ran
\* after the chmod and so saw 0o646.
C6_OneAlertPerStatSeeingChmod ==
    \A d \in Dirs :
        ScenarioA(d) =>
            /\ Alerts(localLog[d]) = syslogLog[d]
            /\ processed[d][1].stat.st_mode = 420 =>
                  syslogLog[d] = <<AlertMsg("file", dirs[d], FileName, 2)>>
            /\ processed[d][1].stat.st_mode = 422 =>
                  syslogLog[d] = <<AlertMsg("file", dirs[d], FileName, 1),
                                   AlertMsg("file", dirs[d], FileName, 2)>>
            /\ processed[d][1].stat.st_mode \in {420, 422}

\* scenario A with the create event handled before the chmod: one alert
C6_Witness ==
    \E d \in Dirs : ScenarioA(d) /\ processed[d][1].stat.st_mode = 420
                        /\ Len(syslogLog[d]) = 1

\* process_event found the event interesting and the entry's mode matched
Matched(p) ==
    /\ \E i \in 1 .. Len(p.event_types) : p.event_types[i] \in INTERESTING_EVENTS
    /\ p.stat.err = "none"
    /\ OthersWrite(p.stat.st_mode)

\* C7: for every event given to process_event, each logger gets at most one
\* alert for it, none unless the event is interesting and its entry matched,
\* and, once process_event has returned, exactly one if so; nothing is
\* suppressed for a path alerted before.
C7_OneAlertPerMatchedEvent ==
    \A d \in Dirs : \A i \in 1 .. Len(processed[d]) :
        LET p == processed[d][i]
            nSys == AlertsFor(syslogLog[d], p.id)
            nLoc == AlertsFor(localLog[d], p.id)
        IN  /\ nSys <= 1 /\ nLoc <= 1
            /\ p.result = "alert" <=> Matched(p)
            /\ ~Matched(p) => nSys = 0 /\ nLoc = 0
            /\ (Matched(p) /\ cur[d].id # p.id) => nSys = 1 /\ nLoc = 1

\* two events for the same path got an alert each
C7_Witness ==
    \E d \in Dirs :
        /\ Len(syslogLog[d]) = 2
        /\ syslogLog[d][1].rec # syslogLog[d][2].rec
        /\ syslogLog[d][1].path = syslogLog[d][2].path
        /\ syslogLog[d][1].filename = syslogLog[d][2].filename

\* C8: whether an event is passed on depends on its type names alone, and
\* os.stat is called for no event without an interesting type name:
\* process_event returns before is_world_writable for each of them.
C8_NoStatForUninteresting ==
    \A d \in Dirs : \A i \in 1 .. Len(processed[d]) :
        LET p == processed[d][i]
            interesting == \E j \in 1 .. Len(p.event_types) :
                               p.event_types[j] \in INTERESTING_EVENTS
        IN  /\ p.result = "not interesting" <=> ~interesting
            /\ ~interesting => p.stat = NoStat
            /\ interesting => p.stat # NoStat

\* an IN_DELETE event went through process_event without a stat
C8_Witness ==
    \E d \in Dirs : \E i \in 1 .. Len(processed[d]) :
        /\ processed[d][i].event_types[1] = "IN_DELETE"
        /\ processed[d][i].stat = NoStat

\* C11: when os.stat finds the entry of an interesting event gone (it was
\* removed between the notification and the check), is_world_writable returns
\* False without raising: the event ends as "no alert", neither logger gets
\* an alert for it, and the step leaves the thread in the event generator with
\* its watch, ready for the next event.
C11_MissingEntryNoAlert ==
    /\ [](\A d \in Dirs : \A i \in 1 .. Len(processed[d]) :
             LET p == processed[d][i]
             IN  p.stat.err = "FileNotFoundError" =>
                     /\ p.result = "no alert"
                     /\ AlertsFor(localLog[d], p.id) = 0
                     /\ AlertsFor(syslogLog[d], p.id) = 0)
    /\ [][\A d \in Dirs :
             (/\ BeginsEvent(d)
              /\ processed'[d][Len(processed'[d])].stat.err = "FileNotFoundError") =>
                 /\ pc[d] = "streaming" /\ pc'[d] = "streaming"
                 /\ watch'[d] = watch[d] /\ watch[d] # NoWatch
                 /\ queue'[d] = Tail(queue[d])]_vars

\* the entry was created and removed before its IN_CREATE event was handled;
\* the thread found it gone and went on to handle the IN_DELETE event
C11_Witness ==
    \E d \in Dirs :
        /\ Len(processed[d]) = 2
        /\ processed[d][1].event_types[1] = "IN_CREATE"
        /\ processed[d][1].stat.err = "FileNotFoundError"
        /\ processed[d][2].event_types[1] = "IN_DELETE"
        /\ pc[d] = "streaming"

\* C12: an error of os.stat other than FileNotFoundError is not turned into
\* False: the event ends as "raised", never as "no alert", the exception
\* leaves is_world_writable and process_event and ends the thread, so the
\* event is the last the thread handled; and every event that ended as
\* "no alert" had a stat that succeeded or found the entry gone.
C12_OtherStatErrorPropagates ==
    \A d \in Dirs : \A i \in 1 .. Len(processed[d]) :
        LET p == processed[d][i]
        IN  /\ p.stat.err \notin {"none", "FileNotFoundError", "not called"} =>
                  /\ p.result = "raised"
                  /\ i = Len(processed[d])
                  /\ pc[d] = "dead"
                  /\ AlertsFor(localLog[d], p.id) = 0
                  /\ AlertsFor(syslogLog[d], p.id) = 0
            /\ p.result = "no alert" => p.stat.err \in {"none", "FileNotFoundError"}
            /\ p.result = "raised" <=> p.stat.err = "OSError"

\* os.stat raised for an interesting event and the thread ended, the flag
\* still being True
C12_Witness ==
    \E d \in Dirs :
        /\ processed[d] # <<>>
        /\ processed[d][Len(processed[d])].stat.err = "OSError"
        /\ pc[d] = "dead"
        /\ Alive /\ PROCESS_EVENTS

\* C13: an alert is the same message, at warning level, in both loggers:
\* whenever a thread is not inside send_ow_alert (a thread the exit of the
\* process stopped between the two writes never left it), the alerts it wrote
\* to _LOGGER are, in order, the messages it wrote to _SYSLOG_LOGGER; inside
\* send_ow_alert the local logger is ahead by at most the one message.
C13_BothSinksSameAlerts ==
    \A d \in Dirs :
        /\ cur[d] = NoEvent => Alerts(localLog[d]) = syslogLog[d]
        /\ IsPrefix(syslogLog[d], Alerts(localLog[d]))
        /\ Len(Alerts(localLog[d])) <= Len(syslogLog[d]) + 1
        /\ \A i \in 1 .. Len(syslogLog[d]) :
              IsAlert(syslogLog[d][i]) /\ syslogLog[d][i].level = "warning"
        /\ \A i \in 1 .. Len(localLog[d]) : localLog[d][i].level = "warning"

\* a thread back in the event generator has written one alert to each logger,
\* after the warning of a recovery that went to the local logger alone
C13_Witness ==
    \E d \in Dirs :
        /\ cur[d] = NoEvent
        /\ pc[d] = "streaming"
        /\ Len(syslogLog[d]) = 1
        /\ Len(localLog[d]) = 2
        /\ IsRecoverMsg(localLog[d][1])
        /\ localLog[d][2] = syslogLog[d][1]

\* C14: when InotifyTree raises (the directory is gone), at the first
\* registration or at one after a recovery, the exception leaves the thread's
\* function and ends the thread: the failed registration is the last watch
\* operation of the thread, which holds no watch, and a thread that has ended
\* takes no further step.
C14_RegistrationFailureFatal ==
    /\ [](\A d \in Dirs : \A i \in 1 .. Len(ops[d]) :
             ops[d][i].op = "register_failed" =>
                 /\ i = Len(ops[d])
                 /\ pc[d] = "dead"
                 /\ watch[d] = NoWatch)
    /\ [][\A d \in Dirs :
             pc[d] = "dead" =>
                 /\ pc'[d] = "dead"
                 /\ ops'[d] = ops[d]
                 /\ processed'[d] = processed[d]
                 /\ watch'[d] = NoWatch]_vars

\* the registration after a recovery failed and ended the thread, the process
\* still running
C14_Witness ==
    \E d \in Dirs :
        /\ Len(ops[d]) = 5
        /\ ops[d][1].op = "register"
        /\ ops[d][2].op = "terminal"
        /\ ops[d][5].op = "register_failed"
        /\ pc[d] = "dead"
        /\ Alive

\* C15 as claimed: main has started exactly one thread for each entry of
\* options.dirs it has got to, and no two threads hold a watch on the same
\* directory.
C15_OneWorkerPerRoot ==
    /\ \A d \in Dirs : pc[d] # "idle" <=> d < nextDir
    /\ \A d, e \in Dirs :
          (d # e /\ watch[d] # NoWatch /\ watch[e] # NoWatch) =>
              watch[d].root # watch[e].root

\* what _raise_on_invalid_options accepts: an integer port in 1 .. 65535,
\* every entry of the list an existing directory, the protocol tcp or udp
ValidOptions ==
    /\ given.port.isint
    /\ given.port.val \in 1 .. 65535
    /\ \A d \in Dirs : isdir[dirs[d]]
    /\ given.protocol \in {"tcp", "udp"}

\* C16: main leaves option merging with sys.exit(1), after printing one
\* "Error: ..." line to stderr, exactly when the port, one of the directories
\* of the list or the protocol is invalid, and otherwise goes on to start the
\* threads; in a run that ended so no thread was started and no watch was
\* registered or tried, and nothing is printed to stderr in any other run.
C16_ConfigErrorsFatal ==
    /\ [][(mainpc = "parse" /\ mainpc' # "parse") =>
              /\ mainpc' = IF ValidOptions THEN "spawn" ELSE "exit1"
              /\ mainpc' = "exit1" => Len(stderr') = 1]_vars
    /\ [](mainpc = "exit1" =>
             /\ Len(stderr) = 1
             /\ stderr[1].prefix = "Error: "
             /\ stderr[1].text \in {INVALID_PORT_ERROR, INVALID_DIR_ERROR,
                                      INVALID_PROTOCOL_ERROR}
             /\ stderr[1].text = INVALID_DIR_ERROR => ~isdir[stderr[1].dir]
             /\ \A d \in Dirs : /\ pc[d] = "idle"
                                  /\ ops[d] = <<>>
                                  /\ watch[d] = NoWatch
                                  /\ processed[d] = <<>>)
    /\ [](mainpc # "exit1" => stderr = <<>>)
    /\ [](\A d \in Dirs : pc[d] # "idle" => mainpc \in {"spawn", "loop", "exited"})

\* the second directory of the list does not exist, the first does: the error
\* names the second and the process has exited without a thread
C16_Witness ==
    /\ mainpc = "exit1"
    /\ Len(stderr) = 1
    /\ stderr[1].text = INVALID_DIR_ERROR
    /\ NumDirs >= 2
    /\ stderr[1].dir = dirs[2]
    /\ isdir[dirs[1]]
    /\ \A d \in Dirs : pc[d] = "idle" /\ ops[d] = <<>>

\* the ids of a sequence of records increase strictly
Increasing(seq, Id(_)) == \A i, j \in 1 .. Len(seq) : i < j => Id(seq[i]) < Id(seq[j])

IdOf(r) == r.id
RecOf(m) == m.rec

\* C17: a thread handles its events one at a time in the order its watch
\* delivered them: process_event is given the oldest event not yet handled and
\* only when the thread is inside no other call of it; every event but the
\* last the thread took has been handled to the end, its alert written to
\* both loggers if it got one; so the events handled, and the alerts in each
\* logger, are in the order of delivery.  (Nothing orders the alerts of two
\* threads: each thread has its own watch and its own position.)
C17_InOrderOneAtATime ==
    /\ [](\A d \in Dirs :
             /\ Increasing(processed[d], IdOf)
             /\ Increasing(queue[d], IdOf)
             /\ Increasing(syslogLog[d], RecOf)
             /\ Increasing(Alerts(localLog[d]), RecOf)
             /\ \A i \in 1 .. Len(processed[d]) - 1 :
                   /\ cur[d].id # processed[d][i].id
                   /\ processed[d][i].result = "alert" =>
                         /\ AlertsFor(localLog[d], processed[d][i].id) = 1
                         /\ AlertsFor(syslogLog[d], processed[d][i].id) = 1
             /\ cur[d] # NoEvent => cur[d].id = processed[d][Len(processed[d])].id)
    /\ [][\A d \in Dirs :
             BeginsEvent(d) =>
                 /\ cur[d] = NoEvent
                 /\ queue[d] # <<>>
                 /\ processed'[d][Len(processed'[d])].id = Head(queue[d]).id
                 /\ Len(processed'[d]) = Len(processed[d]) + 1]_vars

\* two events waited on the watch at the same time and each got its alert, in
\* the order of delivery, in both loggers
C17_Witness ==
    \E d \in Dirs :
        /\ Len(processed[d]) = 2
        /\ processed[d][1].stat = processed[d][2].stat
        /\ processed[d][1].result = "alert"
        /\ Len(syslogLog[d]) = 2
        /\ syslogLog[d][1].rec = 1 /\ syslogLog[d][2].rec = 2
        /\ localLog[d] = syslogLog[d]

\* the positions in the history of d's directory of the terminal events of
\* d's watch, and of d's successful registrations
TerminalsAt(d) == {k \in 1 .. Len(fsHist[dirs[d]]) : fsHist[dirs[d]][k].by = d}
RegisteredAt(d) == SelectSeq(ops[d], LAMBDA o : o.op = "register")

\* the change k of d's directory fell into a gap of d: after a terminal event
\* of d's watch and not after the registration that followed it, if one did
InGap(d, k) ==
    \E t \in TerminalsAt(d) :
        /\ t < k
        /\ LET n == Cardinality({u \in TerminalsAt(d) : u <= t})
           IN  n + 1 <= Len(RegisteredAt(d)) => k <= RegisteredAt(d)[n + 1].at

\* C18: no event is handled twice; an event is handled under the watch that
\* was registered when its change was made: a change made before a terminal
\* event of the watch is never handled after it, and a change made between
\* the terminal event and the end of the registration that follows is handled
\* by the thread never and gets no alert from it.
C18_NothingAcrossRecovery ==
    \A d \in Dirs :
        /\ \A i, j \in 1 .. Len(processed[d]) :
              i # j => processed[d][i].id # processed[d][j].id
        /\ \A i \in 1 .. Len(processed[d]) :
              LET r == processed[d][i]
              IN  /\ r.reg \in 1 .. Len(RegisteredAt(d))
                  /\ RegisteredAt(d)[r.reg].at < r.id
                  /\ \A t \in TerminalsAt(d) :
                        r.id < t => r.reg <= Cardinality({u \in TerminalsAt(d) : u <= t})
                  /\ r.reg = 1 + Cardinality({u \in TerminalsAt(d) : u < r.id})
        /\ \A k \in 1 .. Len(fsHist[dirs[d]]) :
              InGap(d, k) =>
                  /\ \A i \in 1 .. Len(processed[d]) : processed[d][i].id # k
                  /\ \A i \in 1 .. Len(queue[d]) : queue[d][i].id # k
                  /\ AlertsFor(localLog[d], k) = 0
                  /\ AlertsFor(syslogLog[d], k) = 0

\* a world writable entry was created while the thread was between the
\* terminal event and its next registration: the thread is in the event
\* generator again and has nothing to handle and has alerted nothing
C18_Witness ==
    \E d \in Dirs :
        /\ Len(fsHist[dirs[d]]) = 2
        /\ fsHist[dirs[d]][1].by = d
        /\ fsHist[dirs[d]][2].op = "IN_CREATE"
        /\ OthersWrite(fsHist[dirs[d]][2].mode)
        /\ Len(RegisteredAt(d)) = 2
        /\ RegisteredAt(d)[2].at = 2
        /\ pc[d] = "streaming"
        /\ queue[d] = <<>>
        /\ processed[d] = <<>>
        /\ syslogLog[d] = <<>>

\* bit i of the non-negative integer n is set
Bit(n, i) == (n \div (2 ^ i)) % 2 = 1

RECURSIVE FromOctal(_)
\* the number a sequence of octal digits stands for
FromOctal(digits) ==
    IF digits = <<>> THEN 0
    ELSE 8 * FromOctal(SubSeq(digits, 1, Len(digits) - 1)) + digits[Len(digits)]

SingleRooted(path) ==
    /\ path # <<>>
    /\ path[1] = "/"
    /\ Len(path) >= 2 => path[2] # "/"

IsMerge == fcall # NoCall /\ fcall.fn = "_merge_args_and_config"

\* the port the merge arrives at is not an integer: the argument when it is
\* given, else the text of the config file
PortNotInteger ==
    IF fcall.args.port.given THEN ~fcall.args.port.val.isint
    ELSE fcall.config.port.present /\ ~fcall.config.port.val.numeric

\* the number the port the merge arrives at stands for
PortNumber ==
    IF fcall.args.port.given THEN fcall.args.port.val.val
    ELSE IF fcall.config.port.present THEN fcall.config.port.val.n
    ELSE DefaultPort.val

\* C21 as stated: option merging accepts a port only if it is an integer in
\* 1..65535; every port that is not an integer raises TypeError, an integer
\* port that is 0, negative or above 65535 raises ValueError, and a rejected
\* port produces no Options.
C21_PortValidation ==
    IsMerge =>
        /\ fcall.ret.returned => ~PortNotInteger /\ PortNumber \in 1 .. 65535
        /\ PortNotInteger => ~fcall.ret.returned /\ fcall.ret.exc.exc = "TypeError"
        /\ ~PortNotInteger /\ PortNumber \notin 1 .. 65535 =>
              /\ ~fcall.ret.returned
              /\ fcall.ret.exc.exc = "ValueError"
              /\ fcall.ret.exc.text = INVALID_PORT_ERROR

\* C21 amended: option merging accepts a port only if it is an integer in
\* 1..65535; a port argument that is not an integer raises TypeError, a port
\* of the config file whose text is no integer raises the ValueError of int(),
\* an integer port that is 0, negative or above 65535 raises ValueError, and a
\* rejected port produces no Options.
C21_PortValidationBySource ==
    IsMerge =>
        /\ fcall.ret.returned => ~PortNotInteger /\ PortNumber \in 1 .. 65535
        /\ PortNotInteger /\ fcall.args.port.given =>
              /\ ~fcall.ret.returned
              /\ fcall.ret.exc.exc = "TypeError"
              /\ fcall.ret.exc.text = INVALID_PORT_ERROR
        /\ PortNotInteger /\ ~fcall.args.port.given =>
              /\ ~fcall.ret.returned
              /\ fcall.ret.exc = IntError
        /\ ~PortNotInteger /\ PortNumber \notin 1 .. 65535 =>
              /\ ~fcall.ret.returned
              /\ fcall.ret.exc.exc = "ValueError"
              /\ fcall.ret.exc.text = INVALID_PORT_ERROR
        /\ ~fcall.ret.returned => fcall.ret.options = NoOptions

\* a port text of the config file that is no integer was rejected, no port
\* argument being given
C21_Witness ==
    /\ IsMerge
    /\ ~fcall.args.port.given
    /\ fcall.config.port.present
    /\ ~fcall.config.port.val.numeric
    /\ ~fcall.ret.returned
    /\ fcall.ret.exc.exc = "ValueError"

(* ------------------------------- C22 ---------------------------------- *)

\* C22: a merge that returns gives every option -- dirs, port, syslog server,
\* protocol, log file, debug -- the value of the command line when one is
\* given there and else the value of the config file, each option on its own.
C22_ArgsOverrideConfig ==
    IsMerge /\ fcall.ret.returned =>
        LET args == fcall.args
            config == fcall.config
            options == fcall.ret.options
        IN  /\ args.dirs.given => options.dirs = DirList(args.dirs.val)
            /\ ~args.dirs.given /\ config.dirs.present =>
                  options.dirs = DirList(config.dirs.val)
            /\ args.port.given => options.port = args.port.val
            /\ ~args.port.given /\ config.port.present =>
                  options.port = int(config.port.val)
            /\ args.syslog_server.given => options.syslog_server = args.syslog_server.val
            /\ ~args.syslog_server.given /\ config.syslog_server.present =>
                  options.syslog_server = config.syslog_server.val
            /\ args.tcp => options.protocol = "tcp"
            /\ ~args.tcp /\ config.protocol.present =>
                  options.protocol = lower(config.protocol.val)
            /\ args.debug => options.debug
            /\ ~args.debug /\ config.debug.present =>
                  options.debug = (config.debug.val = "True")
            /\ "log_file" \in DOMAIN options

(* ------------------------------- C23 ---------------------------------- *)

\* C23: the step of send_ow_alert that writes the alert builds the message
\* "Found world writable <word>: <path joined with filename>" for the event in
\* hand, with the word "directory" exactly when the entry is a directory at
\* the moment of that step and "file" otherwise -- also when the entry is gone
\* by then -- and writes it: no state of the entry keeps the alert from being
\* written once process_event decided for it (only the end of the process
\* takes the thread out of send_ow_alert otherwise).
C23_WordFromFreshQuery ==
    /\ [](\A d \in Dirs : pc[d] = "send_ow_alert" => ENABLED SendAlertLocal(d))
    /\ [][\A d \in Dirs :
            (pc[d] = "send_ow_alert" /\ pc'[d] \notin {"send_ow_alert", "killed"}) =>
                /\ pc'[d] = "syslog_warning"
                /\ localLog'[d] = Append(localLog[d], msg'[d])
                /\ msg'[d].level = "warning"
                /\ msg'[d].text = "Found world writable"
                /\ msg'[d].word = (IF entry[cur[d].path].kind = "directory"
                                     THEN "directory" ELSE "file")
                /\ msg'[d].path = cur[d].path
                /\ msg'[d].filename = cur[d].filename
                /\ msg'[d].rec = cur[d].id]_vars

\* a world-writable directory was created, its event passed the permission
\* check, the directory was removed before the alert was built, and the alert
\* was written with the word "file"
C23_Witness ==
    \E d \in Dirs :
        /\ Len(fsHist[dirs[d]]) = 2
        /\ fsHist[dirs[d]][1].op = "IN_CREATE"
        /\ fsHist[dirs[d]][1].kind = "directory"
        /\ fsHist[dirs[d]][2].op = "IN_DELETE"
        /\ Len(processed[d]) >= 1
        /\ processed[d][1].result = "alert"
        /\ processed[d][1].stat.err = "none"
        /\ Len(syslogLog[d]) = 1
        /\ syslogLog[d][1].word = "file"
        /\ syslogLog[d][1].rec = 1

(* ------------------------------- C24 ---------------------------------- *)

\* C24: the sleep and the warning of the except clause happen only for a
\* TerminalEventException: every sleep of a thread directly follows a terminal
\* event of its watch and every warning directly follows that sleep, both
\* naming that event; a thread is in the except clause only so; there are as
\* many recovery warnings in the log as warnings made; and a failed
\* InotifyTree or an exception out of process_event is followed by neither:
\* it is the last thing the thread did.
C24_RecoveryOnlyOnTerminal ==
    \A d \in Dirs :
        LET o == ops[d]
            n == Len(o)
        IN  /\ \A i \in 1 .. n :
                  /\ o[i].op = "sleep" =>
                        /\ i > 1
                        /\ IsTerminal(o[i - 1])
                        /\ o[i - 1].tex \in TerminalEvents
                        /\ o[i].tex = o[i - 1].tex
                  /\ o[i].op = "warning" =>
                        /\ i > 1
                        /\ o[i - 1].op = "sleep"
                        /\ o[i].tex = o[i - 1].tex
                  /\ o[i].op = "register_failed" => i = n /\ pc[d] \in {"dead", "killed"}
            /\ pc[d] = "except_sleep" => n > 0 /\ IsTerminal(o[n])
            /\ pc[d] = "except_warning" => n > 0 /\ o[n].op = "sleep"
            /\ Len(SelectSeq(localLog[d], IsRecoverMsg)) = Count(o, "warning")
            /\ Count(o, "warning") <= Count(o, "sleep")
            /\ Count(o, "sleep") <= Count(o, "terminal")
            /\ \A i \in 1 .. Len(processed[d]) :
                  processed[d][i].result = "raised" =>
                      /\ i = Len(processed[d])
                      /\ pc[d] \in {"dead", "killed"}
                      /\ n > 0 /\ o[n].op = "register"
                      /\ Count(o, "register") = processed[d][i].reg

\* one thread slept and warned after a terminal event while another ended on
\* a fault without either
C24_Witness ==
    \E d, e \in Dirs :
        /\ Count(ops[d], "terminal") = 1
        /\ Count(ops[d], "sleep") = 1
        /\ Count(ops[d], "warning") = 1
        /\ pc[e] = "dead"
        /\ ops[e] # <<>>
        /\ Count(ops[e], "sleep") = 0
        /\ Count(ops[e], "warning") = 0
        /\ SelectSeq(localLog[e], IsRecoverMsg) = <<>>

(* ------------------------------- C25 ---------------------------------- *)

\* the variables of the thread e
ThreadState(e) == <<pc[e], watch[e], queue[e], cur[e], msg[e], cause[e], ops[e],
                    processed[e], localLog[e], syslogLog[e]>>

\* C25: the step in which a thread ends on a fault -- the failure of
\* InotifyTree or an exception out of process_event -- changes neither
\* PROCESS_EVENTS nor the main thread nor any variable of another thread; and
\* next to a thread that ended so every other thread can still take its next
\* step: process the next event of its watch, write the alert it decided for.
C25_WorkersIndependent ==
    /\ [][\A d \in Dirs :
            (pc[d] # "dead" /\ pc'[d] = "dead") =>
                /\ PROCESS_EVENTS' = PROCESS_EVENTS
                /\ UNCHANGED mainVars
                /\ \A e \in Dirs \ {d} : ThreadState(e)' = ThreadState(e)]_vars
    /\ [](\A d, e \in Dirs :
            (d # e /\ pc[d] = "dead") =>
                /\ (pc[e] = "streaming" /\ queue[e] # <<>>) =>
                       ENABLED ProcessEvent(e, FALSE)
                /\ pc[e] = "send_ow_alert" => ENABLED SendAlertLocal(e)
                /\ pc[e] = "syslog_warning" => ENABLED SendAlertSyslog(e)
                /\ pc[e] = "setup" => ENABLED SetupWatch(e))

\* two threads watch one directory; one ended on the stat error of the first
\* event, the other sent the alerts for the first and the second event, and the
\* control loop still runs with the flag set
C25_Witness ==
    \E d, e \in Dirs :
        /\ d # e
        /\ dirs[d] = dirs[e]
        /\ pc[d] = "dead"
        /\ Len(processed[d]) = 1
        /\ processed[d][1].result = "raised"
        /\ processed[d][1].id = 1
        /\ pc[e] = "streaming"
        /\ Len(Alerts(syslogLog[e])) = 2
        /\ syslogLog[e][2].rec = 2
        /\ mainpc = "loop"
        /\ PROCESS_EVENTS

(* ------------------------------- C26 ---------------------------------- *)

\* C26: a thread that ended on a fault stays ended; from then on no watch is
\* held or registered on its directory and no alert is written for it; the
\* control loop stays in its loop while PROCESS_EVENTS is set, whatever the
\* threads do, and main has returned only with the flag cleared by a signal.
C26_DeadWorkerRootUnwatched ==
    /\ [](\A d \in Dirs : pc[d] = "dead" =>
             /\ watch[d] = NoWatch
             /\ \A e \in Dirs : watch[e] # NoWatch => watch[e].root # dirs[d])
    /\ [][\A d \in Dirs : pc[d] = "dead" =>
             /\ pc'[d] = "dead"
             /\ \A e \in Watchers(dirs[d]) :
                   /\ Count(ops'[e], "register") = Count(ops[e], "register")
                   /\ Alerts(localLog'[e]) = Alerts(localLog[e])
                   /\ Alerts(syslogLog'[e]) = Alerts(syslogLog[e])]_vars
    /\ [][(mainpc = "loop" /\ PROCESS_EVENTS') => mainpc' = "loop"]_vars
    /\ [](mainpc = "exited" => ~PROCESS_EVENTS)

====
